---- MODULE Spec2Model ----
(***************************************************************************)
(* Model of the foodgram backend: the Base62 short-code codec, the short   *)
(* link endpoints and their URL routing, and the favorite / shopping cart  *)
(* / subscription relation endpoints with their store tables.              *)
(*                                                                         *)
(* The specifications share the variables:                                 *)
(*   CodecSpec  the codec as a pure function of drawn inputs               *)
(*   LinkSpec   get-link, URL resolution and the redirect handler          *)
(*   Spec       concurrent relation requests against the store             *)
(*   ExportSpec the shopping cart download and the file factories          *)
(*   RecipeSpec recipe create / update / destroy against the store         *)
(***************************************************************************)
EXTENDS Integers, Sequences, FiniteSets, TLC

VARIABLES
    codec,          \* the codec run: input, encoded string, decoded result
    recipes,        \* ids of the rows of the Recipe table
    http,           \* LinkSpec: the last request served and its response
    Favorite,       \* rows of the Favorite table
    ShoppingCart,   \* rows of the ShoppingCart table
    Follow,         \* rows of the Follow table
    last_pk,        \* per table, the last primary key the store issued
    procs,          \* the request each worker is serving, and where it is
    resp,           \* the response sent by the last step, NoResp if none
    nreq,           \* number of requests received so far
    Recipe,         \* per recipe id, the fields of its Recipe row
    Recipe_tags,    \* rows of the Recipe.tags link table
    RecipeIngredient, \* rows of the RecipeIngredient table
    canvas,         \* PdfSpec: the PDF canvas being drawn on
    export          \* ExportSpec: the last export made and its result

vars == <<codec, recipes, http, Favorite, ShoppingCart, Follow, last_pk,
          procs, resp, nreq, Recipe, Recipe_tags, RecipeIngredient, export,
          canvas>>

relVars == <<Favorite, ShoppingCart, Follow, last_pk, procs, resp, nreq>>

storeVars == <<Recipe, Recipe_tags, RecipeIngredient, export, canvas>>

----------------------------------------------------------------------------
(* Bounds *)

MaxNum == 4000
MaxCodeLen == 2
NumProcs == 2
MaxRequests == 3
MaxRows == 2
MaxEntries == 35

----------------------------------------------------------------------------
(* Base62 codec: core/fields.py, recipes/views.py *)

BASE62 ==
    << "0", "1", "2", "3", "4", "5", "6", "7", "8", "9",
       "a", "b", "c", "d", "e", "f", "g", "h", "i", "j", "k", "l", "m",
       "n", "o", "p", "q", "r", "s", "t", "u", "v", "w", "x", "y", "z",
       "A", "B", "C", "D", "E", "F", "G", "H", "I", "J", "K", "L", "M",
       "N", "O", "P", "Q", "R", "S", "T", "U", "V", "W", "X", "Y", "Z" >>

\* the digits in the order the loop appends them, without the reversal
unreversed(s) == s

\* Python's reversed() on a list
reversed(s) == [i \in 1..Len(s) |-> s[Len(s) + 1 - i]]

\* the while loop of to_base62: append BASE62[num % 62], num //= 62
RECURSIVE to_base62_loop(_, _)
to_base62_loop(num, base62) ==
    IF num = 0
    THEN base62
    ELSE to_base62_loop(num \div 62, Append(base62, BASE62[(num % 62) + 1]))

\* the encoder without its `if num == 0` case
to_base62_no_zero_case(num) == reversed(to_base62_loop(num, << >>))

\* Base62Field.to_base62(num)
to_base62(num) ==
    IF num = 0
    THEN << BASE62[1] >>
    ELSE reversed(to_base62_loop(num, << >>))

\* str.find: -1 for a missing character, no exception
BASE62_find(char) ==
    IF \E i \in 1..Len(BASE62) : BASE62[i] = char
    THEN [raised |-> "none",
          value |-> (CHOOSE i \in 1..Len(BASE62) : BASE62[i] = char) - 1]
    ELSE [raised |-> "none", value |-> -1]

\* BASE62.index(char): the 0-based position, ValueError if char is absent
BASE62_index(char) ==
    IF \E i \in 1..Len(BASE62) : BASE62[i] = char
    THEN [raised |-> "none",
          value |-> (CHOOSE i \in 1..Len(BASE62) : BASE62[i] = char) - 1]
    ELSE [raised |-> "ValueError", value |-> 0]

\* the for loop of from_base62: num = num * 62 + BASE62.index(char)
RECURSIVE from_base62_loop(_, _, _)
from_base62_loop(short_code, i, num) ==
    IF i > Len(short_code)
    THEN [raised |-> "none", value |-> num]
    ELSE LET idx == BASE62_index(short_code[i])
         IN  IF idx.raised # "none"
             THEN [raised |-> idx.raised, value |-> 0]
             ELSE from_base62_loop(short_code, i + 1, num * 62 + idx.value)

\* a decoder whose loop starts at the second symbol
from_base62_from_second(short_code) == from_base62_loop(short_code, 2, 0)

\* Base62Field.from_base62(short_code)
from_base62(short_code) == from_base62_loop(short_code, 1, 0)

----------------------------------------------------------------------------
(* CodecSpec: the codec applied to drawn inputs *)

\* numbers around the digit-count boundaries 62^3, 62^4, 62^5 and the
\* largest integer the checker represents
LargeNums == {238327, 238328, 14776335, 14776336, 916132831, 916132832,
              2147483647}

Nums == (0..MaxNum) \cup LargeNums

\* characters a short code can be made of: alphabet symbols and others
CodeChars == {"0", "1", "Z", "-"}

RECURSIVE CodesOfLen(_)
CodesOfLen(n) ==
    IF n = 0
    THEN {<< >>}
    ELSE {Append(s, c) : s \in CodesOfLen(n - 1), c \in CodeChars}

\* the URL converter <str:short_code> matches a non-empty string without "/"
Codes == UNION {CodesOfLen(n) : n \in 1..MaxCodeLen}

NoResult == [raised |-> "none", value |-> -1]

CodecIdle == [pc |-> "idle", num |-> 0, short_code |-> << >>,
              result |-> NoResult, recoded |-> << >>]

CodecInit ==
    codec \in {[pc |-> "num", num |-> n, short_code |-> << >>,
                result |-> NoResult, recoded |-> << >>] : n \in Nums}
              \cup
              {[pc |-> "code", num |-> 0, short_code |-> s,
                result |-> NoResult, recoded |-> << >>] :
                   s \in Codes \cup {<< >>}}

\* short_code = Base62Field.to_base62(num)
Encode ==
    /\ codec.pc = "num"
    /\ codec' = [codec EXCEPT !.pc = "encoded",
                              !.short_code = to_base62(codec.num)]
    /\ UNCHANGED <<recipes, http>>
    /\ UNCHANGED relVars
    /\ UNCHANGED storeVars

\* Base62Field.from_base62(short_code) on the encoder's output
DecodeEncoded ==
    /\ codec.pc = "encoded"
    /\ codec' = [codec EXCEPT !.pc = "roundtrip",
                              !.result = from_base62(codec.short_code)]
    /\ UNCHANGED <<recipes, http>>
    /\ UNCHANGED relVars
    /\ UNCHANGED storeVars

\* Base62Field.from_base62(short_code) on a code received from outside
DecodeCode ==
    /\ codec.pc = "code"
    /\ codec' = [codec EXCEPT !.pc = "decoded",
                              !.result = from_base62(codec.short_code)]
    /\ UNCHANGED <<recipes, http>>
    /\ UNCHANGED relVars
    /\ UNCHANGED storeVars

\* Base62Field.to_base62 on the number decoded from an outside code
EncodeDecoded ==
    /\ codec.pc = "decoded"
    /\ codec.result.raised = "none"
    /\ codec' = [codec EXCEPT !.pc = "recoded",
                              !.recoded = to_base62(codec.result.value)]
    /\ UNCHANGED <<recipes, http>>
    /\ UNCHANGED relVars
    /\ UNCHANGED storeVars

----------------------------------------------------------------------------
(* Short links: RecipeViewSet.get_link, the URLconf, redirect_to_recipe *)

\* recipe ids of LinkSpec: one-, two- and three-symbol codes
LinkRecipeIds == {1, 62, 3844}

NoPath == [segs |-> << >>, code |-> << >>]
NoLocation == [segs |-> << >>, id |-> 0]

NoHttp == [kind |-> "none", pk |-> 0, path |-> NoPath, status |-> 0,
           link |-> NoPath, location |-> NoLocation]

\* backend/urls.py: path('api/', include(api_v1_patterns)), where
\* api_v1_patterns has path('', include('recipes.urls'))
api_prefix == << "api" >>

\* recipes/urls.py: path('r/<str:short_code>/', ..., name='recipe_redirect')
recipe_redirect_route == << "r" >>

\* the prefix get_link puts before the code: f'/s/{short_code}'
short_link_prefix == << "s" >>

\* URL resolution of a path <prefix>/<code>/: the name of the matching
\* pattern, "none" if no pattern matches (the framework answers 404)
resolve(path) ==
    IF path.segs = api_prefix \o recipe_redirect_route /\ Len(path.code) > 0
    THEN "recipe_redirect"
    ELSE "none"

\* RecipeViewSet.redirect_to_recipe(request, short_code)
redirect_to_recipe(short_code) ==
    LET recipe_id == from_base62(short_code)
    IN  IF recipe_id.raised = "ValueError"
        THEN [status |-> 400, location |-> NoLocation]
        ELSE IF recipe_id.value \notin recipes
             THEN [status |-> 404, location |-> NoLocation]
             ELSE [status |-> 302,
                   location |-> [segs |-> << "recipes" >>,
                                 id |-> recipe_id.value]]

\* a GET of a path: dispatch through the URLconf
serve(path) ==
    IF resolve(path) = "recipe_redirect"
    THEN redirect_to_recipe(path.code)
    ELSE [status |-> 404, location |-> NoLocation]

\* RecipeViewSet.get_link(request, pk)
get_link(pk) ==
    /\ http' =
         IF pk \notin recipes
         THEN [NoHttp EXCEPT !.kind = "get_link", !.pk = pk, !.status = 404]
         ELSE [NoHttp EXCEPT !.kind = "get_link", !.pk = pk, !.status = 200,
                             !.link = [segs |-> short_link_prefix,
                                       code |-> to_base62(pk)]]
    /\ UNCHANGED recipes
    /\ UNCHANGED codec
    /\ UNCHANGED relVars
    /\ UNCHANGED storeVars

\* the client requests the short link the last get-link response carried
FollowLink ==
    /\ http.kind = "get_link"
    /\ http.status = 200
    /\ LET r == serve(http.link)
       IN  http' = [http EXCEPT !.kind = "follow", !.path = http.link,
                                !.status = r.status,
                                !.location = r.location]
    /\ UNCHANGED recipes
    /\ UNCHANGED codec
    /\ UNCHANGED relVars
    /\ UNCHANGED storeVars

\* the path prefixes a client tries
Prefixes == { << "s" >>, << "r" >>, << "api", "r" >> }

\* a client requests <prefix>/<code>/ with a code of its own making
HttpGet(prefix, code) ==
    /\ LET path == [segs |-> prefix, code |-> code]
           r == serve(path)
       IN  http' = [NoHttp EXCEPT !.kind = "get", !.path = path,
                                  !.status = r.status,
                                  !.location = r.location]
    /\ UNCHANGED recipes
    /\ UNCHANGED codec
    /\ UNCHANGED relVars
    /\ UNCHANGED storeVars

----------------------------------------------------------------------------
(* Relations: the Favorite, ShoppingCart and Follow tables of the store,   *)
(* and the views favorite, shopping_cart and manage_subscription.          *)
(* A worker serves a request in two store accesses: the query that opens   *)
(* the view (exists() or first()), then the write (create() or delete()).  *)
(* Other workers' accesses may fall between the two.                       *)

\* the rows of the User table, and of the Recipe table under Spec
Users == {1, 2}
RecipeIds == {1, 2}

\* pk values a request may name: each existing row and one absent id
RecipePks == RecipeIds \cup {3}
UserPks == Users \cup {3}

Procs == 1..NumProcs

Idle == [pc |-> "idle", view |-> "none", user |-> 0, pk |-> 0, obj |-> 0]

NoResp == [view |-> "none", method |-> "none", user |-> 0, pk |-> 0,
           status |-> 0]

Response(view, method, user, pk, status) ==
    [view |-> view, method |-> method, user |-> user, pk |-> pk,
     status |-> status]

\* Model.objects.filter(user=user, <target>=target)
objects_filter(table, user, target) ==
    {row \in table : row.user = user /\ row.target = target}

\* QuerySet.exists()
exists(queryset) == queryset # {}

\* QuerySet.first(): the row of lowest pk, None (pk 0) on an empty queryset
first(queryset) ==
    IF queryset = {}
    THEN 0
    ELSE CHOOSE pk \in {row.pk : row \in queryset} :
             \A row \in queryset : pk <= row.pk

\* a delete of every row of the table
objects_all_delete(table, pk) == {}

\* instance.delete(): DELETE ... WHERE id = pk; no error if the row is gone
instance_delete(table, pk) == {row \in table : row.pk # pk}

\* a test that takes every instance for a row
never_None(instance) == FALSE

\* `if not <instance>:` on the result of first()
is_None(instance) == instance = 0

\* a test that takes no two users for the same
never_same_user(user, following_user) == FALSE

\* `if user == following_user:`
same_user(user, following_user) == user = following_user

\* the row an INSERT adds, with the next value of the table's sequence
new_row(name, user, target) ==
    [pk |-> last_pk[name] + 1, user |-> user, target |-> target]

\* a table without constraints accepts every row
no_constraints(table, user, target) == TRUE

\* Follow.Meta.constraints: UniqueConstraint(user, following) and
\* CheckConstraint(~Q(user=F('following')))
Follow_constraints(table, user, target) ==
    /\ ~ \E row \in table : row.user = user /\ row.target = target
    /\ user # target

\* ForeignKey(Recipe): the store accepts a row only if its recipe exists
recipe_exists(id) == id \in recipes

\* Favorite.Meta and ShoppingCart.Meta are declared without deriving from
\* UserRecipeRelation.Meta, so the UniqueConstraint of the abstract base
\* is not part of either table: every row is accepted
UserRecipeRelation_constraints(table, user, target) == TRUE

----------------------------------------------------------------------------
(* RecipeViewSet.favorite *)

\* the view up to its query: get_object(), then exists() / first()
favorite_receive(p, method, user, pk) ==
    /\ procs[p].pc = "idle"
    /\ nreq < MaxRequests
    /\ nreq' = nreq + 1
    /\ LET queryset == objects_filter(Favorite, user, pk)
       IN  IF pk \notin recipes
           THEN /\ resp' = Response("favorite", method, user, pk, 404)
                /\ UNCHANGED procs
           ELSE IF method = "POST"
           THEN IF exists(queryset)
                THEN /\ resp' = Response("favorite", method, user, pk, 400)
                     /\ UNCHANGED procs
                ELSE /\ resp' = NoResp
                     /\ procs' = [procs EXCEPT ![p] =
                            [pc |-> "create", view |-> "favorite",
                             user |-> user, pk |-> pk, obj |-> 0]]
           ELSE IF is_None(first(queryset))
                THEN /\ resp' = Response("favorite", method, user, pk, 400)
                     /\ UNCHANGED procs
                ELSE /\ resp' = NoResp
                     /\ procs' = [procs EXCEPT ![p] =
                            [pc |-> "delete", view |-> "favorite",
                             user |-> user, pk |-> pk,
                             obj |-> first(queryset)]]
    /\ UNCHANGED <<Favorite, ShoppingCart, Follow, last_pk>>
    /\ UNCHANGED <<codec, recipes, http>>
    /\ UNCHANGED storeVars

\* Favorite.objects.create(user=user, recipe=recipe), then 201
favorite_create(p) ==
    /\ procs[p].pc = "create"
    /\ procs[p].view = "favorite"
    /\ LET user == procs[p].user
           pk == procs[p].pk
       IN  IF /\ UserRecipeRelation_constraints(Favorite, user, pk)
              /\ recipe_exists(pk)
           THEN /\ Favorite' = Favorite \cup {new_row("Favorite", user, pk)}
                /\ last_pk' = [last_pk EXCEPT !["Favorite"] = @ + 1]
                /\ resp' = Response("favorite", "POST", user, pk, 201)
           ELSE /\ resp' = Response("favorite", "POST", user, pk, 500)
                /\ UNCHANGED <<Favorite, last_pk>>
    /\ procs' = [procs EXCEPT ![p] = Idle]
    /\ UNCHANGED <<ShoppingCart, Follow, nreq>>
    /\ UNCHANGED <<codec, recipes, http>>
    /\ UNCHANGED storeVars

\* favorite.delete(), then 204
favorite_delete(p) ==
    /\ procs[p].pc = "delete"
    /\ procs[p].view = "favorite"
    /\ Favorite' = instance_delete(Favorite, procs[p].obj)
    /\ resp' = Response("favorite", "DELETE", procs[p].user, procs[p].pk, 204)
    /\ procs' = [procs EXCEPT ![p] = Idle]
    /\ UNCHANGED <<ShoppingCart, Follow, last_pk, nreq>>
    /\ UNCHANGED <<codec, recipes, http>>
    /\ UNCHANGED storeVars

----------------------------------------------------------------------------
(* RecipeViewSet.shopping_cart *)

shopping_cart_receive(p, method, user, pk) ==
    /\ procs[p].pc = "idle"
    /\ nreq < MaxRequests
    /\ nreq' = nreq + 1
    /\ LET queryset == objects_filter(ShoppingCart, user, pk)
       IN  IF pk \notin recipes
           THEN /\ resp' = Response("shopping_cart", method, user, pk, 404)
                /\ UNCHANGED procs
           ELSE IF method = "POST"
           THEN IF exists(queryset)
                THEN /\ resp' =
                            Response("shopping_cart", method, user, pk, 400)
                     /\ UNCHANGED procs
                ELSE /\ resp' = NoResp
                     /\ procs' = [procs EXCEPT ![p] =
                            [pc |-> "create", view |-> "shopping_cart",
                             user |-> user, pk |-> pk, obj |-> 0]]
           ELSE IF is_None(first(queryset))
                THEN /\ resp' =
                            Response("shopping_cart", method, user, pk, 400)
                     /\ UNCHANGED procs
                ELSE /\ resp' = NoResp
                     /\ procs' = [procs EXCEPT ![p] =
                            [pc |-> "delete", view |-> "shopping_cart",
                             user |-> user, pk |-> pk,
                             obj |-> first(queryset)]]
    /\ UNCHANGED <<Favorite, ShoppingCart, Follow, last_pk>>
    /\ UNCHANGED <<codec, recipes, http>>
    /\ UNCHANGED storeVars

\* ShoppingCart.objects.create(user=user, recipe=recipe), then 201
shopping_cart_create(p) ==
    /\ procs[p].pc = "create"
    /\ procs[p].view = "shopping_cart"
    /\ LET user == procs[p].user
           pk == procs[p].pk
       IN  IF /\ UserRecipeRelation_constraints(ShoppingCart, user, pk)
              /\ recipe_exists(pk)
           THEN /\ ShoppingCart' =
                       ShoppingCart \cup {new_row("ShoppingCart", user, pk)}
                /\ last_pk' = [last_pk EXCEPT !["ShoppingCart"] = @ + 1]
                /\ resp' = Response("shopping_cart", "POST", user, pk, 201)
           ELSE /\ resp' = Response("shopping_cart", "POST", user, pk, 500)
                /\ UNCHANGED <<ShoppingCart, last_pk>>
    /\ procs' = [procs EXCEPT ![p] = Idle]
    /\ UNCHANGED <<Favorite, Follow, nreq>>
    /\ UNCHANGED <<codec, recipes, http>>
    /\ UNCHANGED storeVars

\* cart_item.delete(), then 204
shopping_cart_delete(p) ==
    /\ procs[p].pc = "delete"
    /\ procs[p].view = "shopping_cart"
    /\ ShoppingCart' = instance_delete(ShoppingCart, procs[p].obj)
    /\ resp' = Response("shopping_cart", "DELETE", procs[p].user,
                        procs[p].pk, 204)
    /\ procs' = [procs EXCEPT ![p] = Idle]
    /\ UNCHANGED <<Favorite, Follow, last_pk, nreq>>
    /\ UNCHANGED <<codec, recipes, http>>
    /\ UNCHANGED storeVars

----------------------------------------------------------------------------
(* UserViewSet.manage_subscription *)

\* the view up to its query: get_object_or_404(User, pk=id), the
\* self-subscription test, then exists() / first()
manage_subscription_receive(p, method, user, pk) ==
    /\ procs[p].pc = "idle"
    /\ nreq < MaxRequests
    /\ nreq' = nreq + 1
    /\ LET queryset == objects_filter(Follow, user, pk)
       IN  IF pk \notin Users
           THEN /\ resp' = Response("subscribe", method, user, pk, 404)
                /\ UNCHANGED procs
           ELSE IF same_user(user, pk)
           THEN /\ resp' = Response("subscribe", method, user, pk, 400)
                /\ UNCHANGED procs
           ELSE IF method = "POST"
           THEN IF exists(queryset)
                THEN /\ resp' = Response("subscribe", method, user, pk, 400)
                     /\ UNCHANGED procs
                ELSE /\ resp' = NoResp
                     /\ procs' = [procs EXCEPT ![p] =
                            [pc |-> "create", view |-> "subscribe",
                             user |-> user, pk |-> pk, obj |-> 0]]
           ELSE IF is_None(first(queryset))
                THEN /\ resp' = Response("subscribe", method, user, pk, 400)
                     /\ UNCHANGED procs
                ELSE /\ resp' = NoResp
                     /\ procs' = [procs EXCEPT ![p] =
                            [pc |-> "delete", view |-> "subscribe",
                             user |-> user, pk |-> pk,
                             obj |-> first(queryset)]]
    /\ UNCHANGED <<Favorite, ShoppingCart, Follow, last_pk>>
    /\ UNCHANGED <<codec, recipes, http>>
    /\ UNCHANGED storeVars

\* Follow.objects.create(user=user, following=following_user), then 201;
\* a row the constraints reject raises IntegrityError, which the view does
\* not catch: the framework answers 500
manage_subscription_create(p) ==
    /\ procs[p].pc = "create"
    /\ procs[p].view = "subscribe"
    /\ LET user == procs[p].user
           pk == procs[p].pk
       IN  IF Follow_constraints(Follow, user, pk)
           THEN /\ Follow' = Follow \cup {new_row("Follow", user, pk)}
                /\ last_pk' = [last_pk EXCEPT !["Follow"] = @ + 1]
                /\ resp' = Response("subscribe", "POST", user, pk, 201)
           ELSE /\ resp' = Response("subscribe", "POST", user, pk, 500)
                /\ UNCHANGED <<Follow, last_pk>>
    /\ procs' = [procs EXCEPT ![p] = Idle]
    /\ UNCHANGED <<Favorite, ShoppingCart, nreq>>
    /\ UNCHANGED <<codec, recipes, http>>
    /\ UNCHANGED storeVars

\* follow_instance.delete(), then 204
manage_subscription_delete(p) ==
    /\ procs[p].pc = "delete"
    /\ procs[p].view = "subscribe"
    /\ Follow' = instance_delete(Follow, procs[p].obj)
    /\ resp' = Response("subscribe", "DELETE", procs[p].user, procs[p].pk,
                        204)
    /\ procs' = [procs EXCEPT ![p] = Idle]
    /\ UNCHANGED <<Favorite, ShoppingCart, last_pk, nreq>>
    /\ UNCHANGED <<codec, recipes, http>>
    /\ UNCHANGED storeVars

----------------------------------------------------------------------------
(* Shopping cart download: RecipeViewSet.download_shopping_cart and its    *)
(* three writers in recipes/views.py, and the file factories of            *)
(* core/utils.py.  A file is modelled by what its reader gets back: a CSV  *)
(* file by its rows of cells, a text file by its lines; a cell holding a   *)
(* number stands for the decimal text csv.writer and the f-string make of  *)
(* it.                                                                     *)

\* rows of the Ingredient table: id -> name
Ingredient == [id \in {1, 2} |-> IF id = 1 THEN "flour" ELSE "sugar"]

IngredientIds == DOMAIN Ingredient

\* the values of the `format` query parameter a client sends
Formats == {"absent", "csv", "CSV", "txt", "pdf", "xml", ""}

\* str.lower() on the sample values
lower(str) == IF str = "CSV" THEN "csv" ELSE str

\* request.query_params.get('format', 'csv')
query_params_get(format) == IF format = "absent" THEN "csv" ELSE format

\* the orders in which a query without ORDER BY may return the rows of a set
Orderings(rowset) ==
    {seq \in [1..Cardinality(rowset) -> rowset] :
        \A i, j \in 1..Cardinality(rowset) : seq[i] = seq[j] => i = j}

\* [ingredient.name for ingredient in recipe.ingredients.all()], in each
\* order the unordered query may give
ingredient_names(recipe) ==
    LET ids == {row.ingredient : row \in
                   {r \in RecipeIngredient : r.recipe = recipe}}
    IN  {[i \in 1..Len(seq) |-> Ingredient[seq[i]]] : seq \in Orderings(ids)}

\* the iterations of `for item in shopping_cart_items`: per item the recipe
\* name and the joined ingredient names, over every order of the rows
cart_lines(shopping_cart_items) ==
    LET joined == {pick \in [recipes -> UNION {ingredient_names(id) :
                                                 id \in recipes}] :
                     \A id \in recipes : pick[id] \in ingredient_names(id)}
    IN  {[i \in 1..Len(items) |->
            [name |-> Recipe[items[i].target].name,
             ingredients |-> pick[items[i].target]]] :
          items \in Orderings(shopping_cart_items), pick \in joined}

NoExport == [kind |-> "none", user |-> 0, format |-> "none", status |-> 0,
             content_type |-> "none", disposition |-> "none",
             body |-> << >>, input |-> << >>, result |-> "none"]

\* RecipeViewSet._download_csv
view_download_csv(lines) ==
    [status |-> 200, content_type |-> "text/csv",
     disposition |-> "attachment; filename=\"shopping_cart.csv\"",
     body |-> << << "Recipe Name", "Ingredients" >> >> \o
              [i \in 1..Len(lines) |->
                  << lines[i].name, lines[i].ingredients >>]]

\* RecipeViewSet._download_txt
view_download_txt(lines) ==
    [status |-> 200, content_type |-> "text/plain",
     disposition |-> "attachment; filename=\"shopping_cart.txt\"",
     body |-> [i \in 1..Len(lines) |->
                  << "Recipe: ", lines[i].name, "Ingredients: ",
                     lines[i].ingredients >>]]

\* Canvas.save() on a buffer: the document is written to the buffer as
\* bytes, and io.StringIO.write() raises TypeError for anything but str
canvas_save(buffer) ==
    IF buffer = "StringIO" THEN "TypeError" ELSE "saved"

\* RecipeViewSet._download_pdf: the canvas is built on StringIO(); the
\* exception of p.save() is not caught and the request ends in a 500
view_download_pdf(lines) ==
    IF canvas_save("StringIO") = "TypeError"
    THEN [status |-> 500, content_type |-> "none", disposition |-> "none",
          body |-> << >>]
    ELSE [status |-> 200, content_type |-> "application/pdf",
          disposition |-> "attachment; filename=\"shopping_cart.pdf\"",
          body |-> [i \in 1..Len(lines) |->
                      << "Recipe: ", lines[i].name, "Ingredients: ",
                         lines[i].ingredients >>]]

\* a test that takes every queryset for a non-empty one
never_empty(queryset) == FALSE

\* `if not shopping_cart_items:`
is_empty(queryset) == queryset = {}

error_response(status) ==
    [status |-> status, content_type |-> "application/json",
     disposition |-> "none", body |-> << >>]

\* RecipeViewSet.download_shopping_cart(request)
download_shopping_cart(user, format) ==
    /\ LET shopping_cart_items == {row \in ShoppingCart : row.user = user}
           file_format == lower(query_params_get(format))
       IN  \E lines \in cart_lines(shopping_cart_items) :
             LET r == IF is_empty(shopping_cart_items)
                      THEN error_response(404)
                      ELSE IF file_format = "csv"
                           THEN view_download_csv(lines)
                      ELSE IF file_format = "txt"
                           THEN view_download_txt(lines)
                      ELSE IF file_format = "pdf"
                           THEN view_download_pdf(lines)
                      ELSE error_response(400)
             IN  export' = [kind |-> "download_shopping_cart", user |-> user,
                            format |-> format, status |-> r.status,
                            content_type |-> r.content_type,
                            disposition |-> r.disposition, body |-> r.body,
                            input |-> << >>, result |-> "response"]
    /\ UNCHANGED <<Recipe, Recipe_tags, RecipeIngredient, canvas>>
    /\ UNCHANGED <<codec, recipes, http>>
    /\ UNCHANGED relVars

----------------------------------------------------------------------------
(* core/utils.py: FileFactory and FileResponseFactory *)

\* the rows FileFactory is given: dicts of an ingredient name
\* ('recipe__recipe_ingredients__ingredient__name') and a 'total_amount'
IngredientRows ==
    {[name |-> Ingredient[1], total_amount |-> 300],
     [name |-> Ingredient[2], total_amount |-> 50]}

RowLists == UNION {[1..n -> IngredientRows] : n \in 0..MaxRows}

\* the values of file_format the factories are called with
FileFormats == {"csv", "txt", "pdf", "CSV", "xml"}

\* a writer that leaves the header row out
rows_only(ingredients) ==
    [result |-> "str",
     body |-> [i \in 1..Len(ingredients) |->
                 << ingredients[i].name, ingredients[i].total_amount >>]]

\* FileFactory._generate_csv
generate_csv(ingredients) ==
    [result |-> "str",
     body |-> << << "Ingredient", "Total Amount" >> >> \o
              [i \in 1..Len(ingredients) |->
                 << ingredients[i].name, ingredients[i].total_amount >>]]

\* FileFactory._generate_txt: one line "<name>:<total_amount>" per row
generate_txt(ingredients) ==
    [result |-> "str",
     body |-> [i \in 1..Len(ingredients) |->
                 << ingredients[i].name, ":", ingredients[i].total_amount >>]]

\* FileFactory._generate_pdf: the canvas is built on StringIO()
generate_pdf(ingredients) ==
    IF canvas_save("StringIO") = "TypeError"
    THEN [result |-> "TypeError", body |-> << >>]
    ELSE [result |-> "str",
          body |-> [i \in 1..Len(ingredients) |->
                 << ingredients[i].name, ":", ingredients[i].total_amount >>]]

\* FileFactory.create_file(ingredients, file_format)
create_file(ingredients, file_format) ==
    IF file_format = "csv" THEN generate_csv(ingredients)
    ELSE IF file_format = "txt" THEN generate_txt(ingredients)
    ELSE IF file_format = "pdf" THEN generate_pdf(ingredients)
    ELSE [result |-> "None", body |-> << >>]

\* FileResponseFactory.create_response(file_data, file_format)
create_response(file_data, file_format) ==
    IF file_format = "csv"
    THEN [status |-> 200, content_type |-> "text/csv",
          disposition |-> "attachment; filename=\"shopping_cart.csv\"",
          body |-> file_data]
    ELSE IF file_format = "txt"
    THEN [status |-> 200, content_type |-> "text/plain",
          disposition |-> "attachment; filename=\"shopping_cart.txt\"",
          body |-> file_data]
    ELSE IF file_format = "pdf"
    THEN [status |-> 200, content_type |-> "application/pdf",
          disposition |-> "attachment; filename=\"shopping_cart.pdf\"",
          body |-> file_data]
    ELSE error_response(400)

\* a call of FileFactory.create_file
CreateFile(ingredients, file_format) ==
    /\ LET f == create_file(ingredients, file_format)
       IN  export' = [NoExport EXCEPT !.kind = "create_file",
                                      !.format = file_format,
                                      !.input = ingredients,
                                      !.result = f.result,
                                      !.body = f.body]
    /\ UNCHANGED <<Recipe, Recipe_tags, RecipeIngredient, canvas>>
    /\ UNCHANGED <<codec, recipes, http>>
    /\ UNCHANGED relVars

\* a call of FileResponseFactory.create_response on the file made last
CreateResponse(file_format) ==
    /\ export.kind = "create_file"
    /\ export.result = "str"
    /\ LET r == create_response(export.body, file_format)
       IN  export' = [export EXCEPT !.kind = "create_response",
                                    !.format = file_format,
                                    !.status = r.status,
                                    !.content_type = r.content_type,
                                    !.disposition = r.disposition,
                                    !.body = r.body,
                                    !.result = "response"]
    /\ UNCHANGED <<Recipe, Recipe_tags, RecipeIngredient, canvas>>
    /\ UNCHANGED <<codec, recipes, http>>
    /\ UNCHANGED relVars

----------------------------------------------------------------------------
(* Recipe write validation: RecipeWriteSerializer of recipes/serializers.py *)
(* A payload field is a record of whether the request gave it and of the   *)
(* value given; `author` is 0 when not given.  The name, text and image    *)
(* of a payload are taken as given and valid.                              *)

Given(value) == [given |-> TRUE, value |-> value]
Omitted == [given |-> FALSE, value |-> << >>]

\* a test that finds no value repeated
no_double(ids) == FALSE

\* RecipeWriteSerializer._find_double: some value is counted more than once
find_double(ids) ==
    \E i, j \in DOMAIN ids : i # j /\ ids[i] = ids[j]

\* the ids of the submitted ingredient entries
ingredient_ids(ingredients_amounts) ==
    [i \in DOMAIN ingredients_amounts |-> ingredients_amounts[i].id]

\* a minimum that no value falls below
never_below(value) == FALSE

\* serializers.IntegerField(min_value=1): the value is below the minimum
below_min_value(value) == value < 1

\* the fields' own validation and validate_tags / validate_ingredients:
\* `required` unless the update is partial, min_value=1 of cooking_time and
\* of amount, and the search for doubles
field_errors(data, partial) ==
    (IF ~ data.tags.given
     THEN IF partial THEN {} ELSE {"tags: required"}
     ELSE IF find_double(data.tags.value) THEN {"tags: double"} ELSE {})
    \cup
    (IF ~ data.ingredients.given
     THEN IF partial THEN {} ELSE {"ingredients: required"}
     ELSE IF \E i \in DOMAIN data.ingredients.value :
                 below_min_value(data.ingredients.value[i].amount)
          THEN {"amount: min_value"}
          ELSE IF find_double(ingredient_ids(data.ingredients.value))
               THEN {"ingredients: double"} ELSE {})
    \cup
    (IF below_min_value(data.cooking_time)
     THEN {"cooking_time: min_value"} ELSE {})

\* a validate() that accepts every payload
validate_nothing(recipe) == {}

\* RecipeWriteSerializer.validate: `if not recipe.get(...)` is true for a
\* missing key and for an empty list
validate(recipe) ==
    IF ~ recipe.ingredients.given \/ recipe.ingredients.value = << >>
    THEN {"add an ingredient"}
    ELSE IF ~ recipe.tags.given \/ recipe.tags.value = << >>
    THEN {"add a tag"}
    ELSE {}

\* serializer.is_valid(): validate() runs only if no field raised
errors(data, partial) ==
    IF field_errors(data, partial) # {}
    THEN field_errors(data, partial)
    ELSE validate(data)

is_valid(data, partial) == errors(data, partial) = {}

\* the payloads a client sends: the valid ones, and each field in turn
\* omitted, empty, doubled or below its minimum
GoodPayloads ==
    {[tags |-> Given(<< 2 >>),
      ingredients |-> Given(<< [id |-> 2, amount |-> 3] >>),
      cooking_time |-> 5, author |-> 0],
     [tags |-> Given(<< 1, 2 >>),
      ingredients |-> Given(<< [id |-> 1, amount |-> 2],
                               [id |-> 2, amount |-> 1] >>),
      cooking_time |-> 5, author |-> 0]}
BadTags == {Omitted, Given(<< >>), Given(<< 2, 2 >>)}
BadIngredients ==
    {Omitted, Given(<< >>),
     Given(<< [id |-> 1, amount |-> 1], [id |-> 1, amount |-> 2] >>),
     Given(<< [id |-> 1, amount |-> 0] >>)}

Payloads ==
    GoodPayloads
    \cup [tags : BadTags, ingredients : {Given(<< [id |-> 2, amount |-> 3] >>)},
          cooking_time : {5}, author : {0}]
    \cup [tags : {Given(<< 2 >>)}, ingredients : BadIngredients,
          cooking_time : {5}, author : {0}]
    \cup [tags : {Given(<< 2 >>)},
          ingredients : {Given(<< [id |-> 2, amount |-> 3] >>)},
          cooking_time : {0}, author : {0}]
    \cup [tags : {Given(<< 2 >>)},
          ingredients : {Given(<< [id |-> 2, amount |-> 3] >>)},
          cooking_time : {5}, author : {2}]

----------------------------------------------------------------------------
(* Recipe endpoints: RecipeViewSet create / update / partial_update /      *)
(* destroy of recipes/views.py with RecipeWriteSerializer.create / update. *)
(* No transaction spans a request: each store access of update() is a step *)
(* of its own, and other workers' accesses may fall between two of them.   *)

\* the Recipe row a store holds under an id before any recipe request
recipe_row(id) ==
    [author |-> 1, name |-> IF id = 1 THEN "A" ELSE "B", cooking_time |-> 1]

SAFE_METHODS == {"GET", "HEAD", "OPTIONS"}

\* IsAuthorOrReadOnly.has_object_permission (core/permissions.py)
has_object_permission(method, user, obj) ==
    method \in SAFE_METHODS \/ obj.author = user

\* a viewset that lists the authentication permission only
only_authenticated == {"IsAuthenticatedOrReadOnly"}

\* RecipeViewSet.permission_classes
permission_classes == {"IsAuthenticatedOrReadOnly", "IsAuthorOrReadOnly"}

\* get_object() checks the object permissions of the listed classes; the
\* users of this model are authenticated
check_object_permissions(method, user, obj) ==
    "IsAuthorOrReadOnly" \in permission_classes
        => has_object_permission(method, user, obj)

\* the response of a recipe endpoint
RecipeResponse(method, user, pk, status) ==
    [view |-> "recipe", method |-> method, user |-> user, pk |-> pk,
     status |-> status, errors |-> {}]

\* the 400 response of a ValidationError, with the errors raised
ValidationError(method, user, pk, detail) ==
    [view |-> "recipe", method |-> method, user |-> user, pk |-> pk,
     status |-> 400, errors |-> detail]

NoData == [tags |-> Omitted, ingredients |-> Omitted, cooking_time |-> 0,
           author |-> 0]

\* rows of the tags link table for recipe.tags.set(tags)
tag_rows(id, tags) == {[recipe |-> id, tag |-> tags[i]] : i \in DOMAIN tags}

\* the RecipeIngredient objects of add_ingredients_to_recipe
ingredient_rows(id, ingredients) ==
    {[recipe |-> id, ingredient |-> ingredients[i].id,
      amount |-> ingredients[i].amount] : i \in DOMAIN ingredients}

\* RecipeIngredient.Meta.unique_together = ['recipe', 'ingredient'], over
\* the table with the new rows added
unique_together(table, rows) ==
    \A a, b \in table \cup rows :
        (a.recipe = b.recipe /\ a.ingredient = b.ingredient) => a = b

\* a delete that leaves the rows of the recipe where they are
on_delete_DO_NOTHING(table, field, id) == table

\* on_delete=models.CASCADE of the ForeignKey(Recipe) a table holds in
\* `field`: the rows of the recipe go with it.  The same DELETE ... WHERE
\* recipe_id = id is what clear() runs on a link table.
on_delete_CASCADE(table, field, id) == {row \in table : row[field] # id}

\* the workers that serve the requests of RecipeSpec: two requests at most
\* are in service at a time
RecipeWorkers == {1, 2}

\* a request goes to the idle worker of lowest number
first_idle(p) ==
    /\ p \in RecipeWorkers
    /\ procs[p].pc = "idle"
    /\ \A q \in RecipeWorkers : q < p => procs[q].pc # "idle"

\* the Recipe table with the row of `id` inserted or overwritten
recipe_saved(id, fields) ==
    [x \in recipes \cup {id} |-> IF x = id THEN fields ELSE Recipe[x]]

\* RecipeViewSet.create with RecipeWriteSerializer.create
recipe_create(p, user, data) ==
    /\ first_idle(p)
    /\ nreq < MaxRequests
    /\ nreq' = nreq + 1
    /\ IF ~ is_valid(data, FALSE)
       THEN /\ resp' = ValidationError("POST", user, 0, errors(data, FALSE))
            /\ UNCHANGED <<recipes, Recipe, Recipe_tags, RecipeIngredient,
                           last_pk>>
       ELSE LET id == last_pk["Recipe"] + 1
            IN  /\ last_pk' = [last_pk EXCEPT !["Recipe"] = id]
                /\ recipes' = recipes \cup {id}
                /\ Recipe' = recipe_saved(id,
                       [author |-> user, name |-> recipe_row(id).name,
                        cooking_time |-> data.cooking_time])
                /\ Recipe_tags' =
                       Recipe_tags \cup tag_rows(id, data.tags.value)
                /\ RecipeIngredient' = RecipeIngredient \cup
                       ingredient_rows(id, data.ingredients.value)
                /\ resp' = RecipeResponse("POST", user, id, 201)
    /\ UNCHANGED <<Favorite, ShoppingCart, Follow, procs>>
    /\ UNCHANGED <<codec, http, export, canvas>>

\* update / partial_update up to serializer.save(): get_object() with its
\* permission check, then serializer.is_valid()
recipe_update_receive(p, method, user, pk, data) ==
    /\ first_idle(p)
    /\ nreq < MaxRequests
    /\ nreq' = nreq + 1
    /\ IF pk \notin recipes
       THEN /\ resp' = RecipeResponse(method, user, pk, 404)
            /\ UNCHANGED procs
       ELSE IF ~ check_object_permissions(method, user, Recipe[pk])
       THEN /\ resp' = RecipeResponse(method, user, pk, 403)
            /\ UNCHANGED procs
       ELSE IF ~ is_valid(data, method = "PATCH")
       THEN /\ resp' = ValidationError(method, user, pk,
                                        errors(data, method = "PATCH"))
            /\ UNCHANGED procs
       ELSE /\ resp' = NoResp
            /\ procs' = [procs EXCEPT ![p] =
                   [pc |-> "tags_clear", view |-> "recipe", user |-> user,
                    pk |-> pk, obj |-> data, method |-> method,
                    instance |-> Recipe[pk]]]
    /\ UNCHANGED <<Favorite, ShoppingCart, Follow, last_pk>>
    /\ UNCHANGED <<recipes, Recipe, Recipe_tags, RecipeIngredient>>
    /\ UNCHANGED <<codec, http, export, canvas>>

\* instance.tags.clear()
recipe_tags_clear(p) ==
    /\ procs[p].pc = "tags_clear"
    /\ Recipe_tags' = on_delete_CASCADE(Recipe_tags, "recipe", procs[p].pk)
    /\ procs' = [procs EXCEPT ![p].pc = "tags_set"]
    /\ resp' = NoResp
    /\ UNCHANGED <<Favorite, ShoppingCart, Follow, last_pk, nreq>>
    /\ UNCHANGED <<recipes, Recipe, RecipeIngredient>>
    /\ UNCHANGED <<codec, http, export, canvas>>

\* instance.tags.set(validated_data.pop('tags')); the link rows need their
\* recipe, or the store raises IntegrityError and the request ends in 500
recipe_tags_set(p) ==
    /\ procs[p].pc = "tags_set"
    /\ LET pk == procs[p].pk
       IN  IF recipe_exists(pk)
           THEN /\ Recipe_tags' = on_delete_CASCADE(Recipe_tags, "recipe", pk)
                       \cup tag_rows(pk, procs[p].obj.tags.value)
                /\ procs' = [procs EXCEPT ![p].pc = "ingredients_clear"]
                /\ resp' = NoResp
           ELSE /\ resp' = RecipeResponse(procs[p].method, procs[p].user, pk,
                                          500)
                /\ procs' = [procs EXCEPT ![p] = Idle]
                /\ UNCHANGED Recipe_tags
    /\ UNCHANGED <<Favorite, ShoppingCart, Follow, last_pk, nreq>>
    /\ UNCHANGED <<recipes, Recipe, RecipeIngredient>>
    /\ UNCHANGED <<codec, http, export, canvas>>

\* instance.ingredients.clear()
recipe_ingredients_clear(p) ==
    /\ procs[p].pc = "ingredients_clear"
    /\ RecipeIngredient' = on_delete_CASCADE(RecipeIngredient, "recipe", procs[p].pk)
    /\ procs' = [procs EXCEPT ![p].pc = "bulk_create"]
    /\ resp' = NoResp
    /\ UNCHANGED <<Favorite, ShoppingCart, Follow, last_pk, nreq>>
    /\ UNCHANGED <<recipes, Recipe, Recipe_tags>>
    /\ UNCHANGED <<codec, http, export, canvas>>

\* add_ingredients_to_recipe: one bulk_create; a missing recipe or a
\* (recipe, ingredient) pair already in the table raises IntegrityError
recipe_bulk_create(p) ==
    /\ procs[p].pc = "bulk_create"
    /\ LET pk == procs[p].pk
           rows == ingredient_rows(pk, procs[p].obj.ingredients.value)
       IN  IF recipe_exists(pk) /\ unique_together(RecipeIngredient, rows)
           THEN /\ RecipeIngredient' = RecipeIngredient \cup rows
                /\ procs' = [procs EXCEPT ![p].pc = "save"]
                /\ resp' = NoResp
           ELSE /\ resp' = RecipeResponse(procs[p].method, procs[p].user, pk,
                                          500)
                /\ procs' = [procs EXCEPT ![p] = Idle]
                /\ UNCHANGED RecipeIngredient
    /\ UNCHANGED <<Favorite, ShoppingCart, Follow, last_pk, nreq>>
    /\ UNCHANGED <<recipes, Recipe, Recipe_tags>>
    /\ UNCHANGED <<codec, http, export, canvas>>

\* super().update(instance, validated_data): the remaining fields are set
\* on the instance get_object() loaded and instance.save() writes them all;
\* save() inserts the row if its UPDATE finds none
recipe_save(p) ==
    /\ procs[p].pc = "save"
    /\ LET pk == procs[p].pk
           data == procs[p].obj
           instance == procs[p].instance
       IN  /\ Recipe' = recipe_saved(pk,
                  [author |-> IF data.author = 0 THEN instance.author
                              ELSE data.author,
                   name |-> instance.name,
                   cooking_time |-> data.cooking_time])
           /\ recipes' = recipes \cup {pk}
           /\ resp' = RecipeResponse(procs[p].method, procs[p].user, pk, 200)
    /\ procs' = [procs EXCEPT ![p] = Idle]
    /\ UNCHANGED <<Favorite, ShoppingCart, Follow, last_pk, nreq>>
    /\ UNCHANGED <<Recipe_tags, RecipeIngredient>>
    /\ UNCHANGED <<codec, http, export, canvas>>

\* destroy up to perform_destroy(): get_object() with its permission check
recipe_destroy_receive(p, user, pk) ==
    /\ first_idle(p)
    /\ nreq < MaxRequests
    /\ nreq' = nreq + 1
    /\ IF pk \notin recipes
       THEN /\ resp' = RecipeResponse("DELETE", user, pk, 404)
            /\ UNCHANGED procs
       ELSE IF ~ check_object_permissions("DELETE", user, Recipe[pk])
       THEN /\ resp' = RecipeResponse("DELETE", user, pk, 403)
            /\ UNCHANGED procs
       ELSE /\ resp' = NoResp
            /\ procs' = [procs EXCEPT ![p] =
                   [pc |-> "destroy", view |-> "recipe", user |-> user,
                    pk |-> pk, obj |-> NoData, method |-> "DELETE",
                    instance |-> Recipe[pk]]]
    /\ UNCHANGED <<Favorite, ShoppingCart, Follow, last_pk>>
    /\ UNCHANGED <<recipes, Recipe, Recipe_tags, RecipeIngredient>>
    /\ UNCHANGED <<codec, http, export, canvas>>

\* instance.delete(): the row and, in the same transaction, every row an
\* on_delete=CASCADE key ties to it; no error if the row is gone already
recipe_delete(p) ==
    /\ procs[p].pc = "destroy"
    /\ LET pk == procs[p].pk
       IN  /\ recipes' = recipes \ {pk}
           /\ Recipe' = [x \in recipes \ {pk} |-> Recipe[x]]
           /\ Recipe_tags' = on_delete_CASCADE(Recipe_tags, "recipe", pk)
           /\ RecipeIngredient' = on_delete_CASCADE(RecipeIngredient, "recipe", pk)
           /\ Favorite' = on_delete_CASCADE(Favorite, "target", pk)
           /\ ShoppingCart' = on_delete_CASCADE(ShoppingCart, "target", pk)
           /\ resp' = RecipeResponse("DELETE", procs[p].user, pk, 204)
    /\ procs' = [procs EXCEPT ![p] = Idle]
    /\ UNCHANGED <<Follow, last_pk, nreq>>
    /\ UNCHANGED <<codec, http, export, canvas>>

----------------------------------------------------------------------------
(* The PDF writers, line by line: RecipeViewSet._download_pdf of           *)
(* recipes/views.py and FileFactory._generate_pdf of core/utils.py draw on *)
(* a reportlab Canvas of pagesize letter, moving a cursor down the page.   *)

\* width, height = letter: the height of the page in points
height == 792

\* no canvas is open
NoCanvas == [pc |-> "idle", path |-> "none", todo |-> 0, y_position |-> 0,
             page |-> 0, drawn |-> {}]

\* p.drawString(100, y, ...) on the current page
drawString(y) == canvas.drawn \cup {[page |-> canvas.page, y |-> y]}

\* the canvas is opened, the title is drawn at height - 40 and the cursor
\* is set to height - 60; `todo` entries are to be drawn
canvas_Canvas(path, todo) ==
    /\ canvas.pc = "idle"
    \* download_shopping_cart answers 404 before it opens a canvas for an
    \* empty cart
    /\ path = "_download_pdf" => todo >= 1
    /\ canvas' = [pc |-> "loop", path |-> path, todo |-> todo,
                  y_position |-> height - 60, page |-> 1,
                  drawn |-> {[page |-> 1, y |-> height - 40]}]
    /\ UNCHANGED <<Recipe, Recipe_tags, RecipeIngredient, export>>
    /\ UNCHANGED <<codec, recipes, http>>
    /\ UNCHANGED relVars

\* one turn of `for item in shopping_cart_items:` in _download_pdf
download_pdf_item ==
    /\ canvas.pc = "loop"
    /\ canvas.path = "_download_pdf"
    /\ canvas.todo > 0
    /\ LET y1 == canvas.y_position
           y2 == y1 - 20
           y3 == y2 - 40
       IN  canvas' = [canvas EXCEPT
               !.drawn = drawString(y1) \cup {[page |-> canvas.page, y |-> y2]},
               !.todo = @ - 1,
               !.page = IF y3 < 60 THEN @ + 1 ELSE @,
               !.y_position = IF y3 < 60 THEN height - 60 ELSE y3]
    /\ UNCHANGED <<Recipe, Recipe_tags, RecipeIngredient, export>>
    /\ UNCHANGED <<codec, recipes, http>>
    /\ UNCHANGED relVars

\* one turn of `for ingredient in ingredients:` in _generate_pdf
generate_pdf_ingredient ==
    /\ canvas.pc = "loop"
    /\ canvas.path = "_generate_pdf"
    /\ canvas.todo > 0
    /\ LET y1 == canvas.y_position
           y2 == y1 - 20
       IN  canvas' = [canvas EXCEPT
               !.drawn = drawString(y1),
               !.todo = @ - 1,
               !.page = IF y2 < 60 THEN @ + 1 ELSE @,
               !.y_position = IF y2 < 60 THEN height - 60 ELSE y2]
    /\ UNCHANGED <<Recipe, Recipe_tags, RecipeIngredient, export>>
    /\ UNCHANGED <<codec, recipes, http>>
    /\ UNCHANGED relVars

\* p.showPage(); p.save() after the loop
canvas_showPage_save ==
    /\ canvas.pc = "loop"
    /\ canvas.todo = 0
    /\ canvas' = [canvas EXCEPT !.pc = canvas_save("StringIO")]
    /\ UNCHANGED <<Recipe, Recipe_tags, RecipeIngredient, export>>
    /\ UNCHANGED <<codec, recipes, http>>
    /\ UNCHANGED relVars

----------------------------------------------------------------------------
(* Specifications *)

Methods == {"POST", "DELETE"}

\* the recipe tables and the export as the other specifications hold them
StoreIdle ==
    /\ Recipe = [id \in recipes |-> recipe_row(id)]
    /\ Recipe_tags = {}
    /\ RecipeIngredient = {}
    /\ export = NoExport
    /\ canvas = NoCanvas

RelIdle ==
    /\ Favorite = {}
    /\ ShoppingCart = {}
    /\ Follow = {}
    /\ last_pk = [name \in {"Favorite", "ShoppingCart", "Follow"} |-> 0]
    /\ procs = [p \in Procs |-> Idle]
    /\ resp = NoResp
    /\ nreq = 0

\* the relation endpoints, on a store holding the recipes RecipeIds
Init ==
    /\ codec = CodecIdle
    /\ http = NoHttp
    /\ recipes = RecipeIds
    /\ RelIdle
    /\ StoreIdle

Next ==
    \/ \E p \in Procs, method \in Methods, user \in Users, pk \in RecipePks :
           favorite_receive(p, method, user, pk)
    \/ \E p \in Procs : favorite_create(p)
    \/ \E p \in Procs : favorite_delete(p)
    \/ \E p \in Procs, method \in Methods, user \in Users, pk \in RecipePks :
           shopping_cart_receive(p, method, user, pk)
    \/ \E p \in Procs : shopping_cart_create(p)
    \/ \E p \in Procs : shopping_cart_delete(p)
    \/ \E p \in Procs, method \in Methods, user \in Users, pk \in UserPks :
           manage_subscription_receive(p, method, user, pk)
    \/ \E p \in Procs : manage_subscription_create(p)
    \/ \E p \in Procs : manage_subscription_delete(p)

Spec == Init /\ [][Next]_vars

\* the short-link endpoints, on a store holding any of LinkRecipeIds
LinkInit ==
    /\ codec = CodecIdle
    /\ http = NoHttp
    /\ recipes \in SUBSET LinkRecipeIds
    /\ RelIdle
    /\ StoreIdle

LinkNext ==
    \/ \E pk \in LinkRecipeIds : get_link(pk)
    \/ FollowLink
    \/ \E prefix \in Prefixes, code \in Codes : HttpGet(prefix, code)

LinkSpec == LinkInit /\ [][LinkNext]_vars

\* the codec on its own
CodecSpecInit ==
    /\ CodecInit
    /\ http = NoHttp
    /\ recipes = {}
    /\ RelIdle
    /\ StoreIdle

CodecNext ==
    \/ Encode
    \/ DecodeEncoded
    \/ DecodeCode
    \/ EncodeDecoded

CodecSpec == CodecSpecInit /\ [][CodecNext]_vars

\* the shopping cart rows a store of Users and RecipeIds can hold
CartRows ==
    {[pk |-> 2 * (user - 1) + id, user |-> user, target |-> id] :
        user \in Users, id \in RecipeIds}

\* recipe A: flour 200, sugar 50; recipe B: flour 100
ExampleIngredients ==
    {[recipe |-> 1, ingredient |-> 1, amount |-> 200],
     [recipe |-> 1, ingredient |-> 2, amount |-> 50],
     [recipe |-> 2, ingredient |-> 1, amount |-> 100]}

\* the download and the file factories, on a store holding two recipes and
\* any shopping carts
ExportInit ==
    /\ codec = CodecIdle
    /\ http = NoHttp
    /\ recipes = RecipeIds
    /\ Recipe = [id \in recipes |-> recipe_row(id)]
    /\ Recipe_tags = {}
    /\ RecipeIngredient = ExampleIngredients
    /\ export = NoExport
    /\ canvas = NoCanvas
    /\ Favorite = {}
    /\ ShoppingCart \in SUBSET CartRows
    /\ Follow = {}
    /\ last_pk = [name \in {"Favorite", "ShoppingCart", "Follow"} |->
                    IF name = "ShoppingCart" THEN 4 ELSE 0]
    /\ procs = [p \in Procs |-> Idle]
    /\ resp = NoResp
    /\ nreq = 0

ExportNext ==
    \/ \E user \in Users, format \in Formats :
           download_shopping_cart(user, format)
    \/ \E ingredients \in RowLists, file_format \in FileFormats :
           CreateFile(ingredients, file_format)
    \/ \E file_format \in FileFormats : CreateResponse(file_format)

ExportSpec == ExportInit /\ [][ExportNext]_vars

\* the recipe endpoints with the favorite and shopping cart endpoints, on
\* a store holding recipe 1 of user 1 with a tag, an ingredient row, a
\* favorite of user 2 and a shopping cart row of user 1; the request that
\* made recipe 1 is counted as received
RecipeInit ==
    /\ codec = CodecIdle
    /\ http = NoHttp
    /\ export = NoExport
    /\ canvas = NoCanvas
    /\ recipes = {1}
    /\ Recipe = [id \in {1} |-> recipe_row(id)]
    /\ Recipe_tags = {[recipe |-> 1, tag |-> 1]}
    /\ RecipeIngredient = {[recipe |-> 1, ingredient |-> 1, amount |-> 1]}
    /\ Favorite = {[pk |-> 1, user |-> 2, target |-> 1]}
    /\ ShoppingCart = {[pk |-> 1, user |-> 1, target |-> 1]}
    /\ Follow = {}
    /\ last_pk = [name \in {"Favorite", "ShoppingCart", "Follow", "Recipe"}
                    |-> IF name = "Follow" THEN 0 ELSE 1]
    /\ procs = [p \in Procs |-> Idle]
    /\ resp = NoResp
    /\ nreq = 1

\* pk values a recipe request may name: recipe 1 and the next one created
RecipeSpecPks == {1, 2}

\* the requests to add a favorite or a shopping cart row, as RecipeSpec
\* receives them
favorite_request(p, user, pk) ==
    first_idle(p) /\ favorite_receive(p, "POST", user, pk)

shopping_cart_request(p, user, pk) ==
    first_idle(p) /\ shopping_cart_receive(p, "POST", user, pk)

RecipeNext ==
    \/ \E p \in RecipeWorkers, user \in Users, data \in Payloads :
           recipe_create(p, user, data)
    \/ \E p \in RecipeWorkers, method \in {"PUT", "PATCH"}, user \in Users,
          pk \in RecipeSpecPks, data \in Payloads :
           recipe_update_receive(p, method, user, pk, data)
    \/ \E p \in RecipeWorkers : recipe_tags_clear(p)
    \/ \E p \in RecipeWorkers : recipe_tags_set(p)
    \/ \E p \in RecipeWorkers : recipe_ingredients_clear(p)
    \/ \E p \in RecipeWorkers : recipe_bulk_create(p)
    \/ \E p \in RecipeWorkers : recipe_save(p)
    \/ \E p \in RecipeWorkers, user \in Users, pk \in RecipeSpecPks :
           recipe_destroy_receive(p, user, pk)
    \/ \E p \in RecipeWorkers : recipe_delete(p)
    \/ \E p \in RecipeWorkers, user \in Users, pk \in RecipeSpecPks :
           favorite_request(p, user, pk)
    \/ \E p \in RecipeWorkers : favorite_create(p)
    \/ \E p \in RecipeWorkers, user \in Users, pk \in RecipeSpecPks :
           shopping_cart_request(p, user, pk)
    \/ \E p \in RecipeWorkers : shopping_cart_create(p)

RecipeSpec == RecipeInit /\ [][RecipeNext]_vars

----------------------------------------------------------------------------
(* Vocabulary of the properties *)

Table(view) ==
    CASE view = "favorite" -> Favorite
      [] view = "shopping_cart" -> ShoppingCart
      [] view = "subscribe" -> Follow

\* the rows of the pair (user, target) in the table behind a view
Rows(view, user, target) == objects_filter(Table(view), user, target)

RecipeViews == {"favorite", "shopping_cart"}
Views == {"favorite", "shopping_cart", "subscribe"}

\* the ids of existing targets of a view
Targets(view) == IF view = "subscribe" THEN Users ELSE recipes

\* this step receives the request (view, method, user, pk): it answers it at
\* once, or it leaves a worker holding it for its write
Received(view, method, user, pk) ==
    /\ nreq' = nreq + 1
    /\ \/ /\ procs' = procs
          /\ resp'.view = view
          /\ resp'.method = method
          /\ resp'.user = user
          /\ resp'.pk = pk
       \/ \E p \in Procs :
             /\ procs[p].pc = "idle"
             /\ procs'[p].pc = (IF method = "POST" THEN "create" ELSE "delete")
             /\ procs'[p].view = view
             /\ procs'[p].user = user
             /\ procs'[p].pk = pk

\* this step is worker p's write, which ends its request
Wrote(p) == procs[p].pc # "idle" /\ procs'[p].pc = "idle"

TablesUnchanged == UNCHANGED <<Favorite, ShoppingCart, Follow>>

HasForeignChar(short_code) ==
    \E i \in 1..Len(short_code) :
        \A j \in 1..Len(BASE62) : BASE62[j] # short_code[i]

----------------------------------------------------------------------------
(* Claims *)

\* C1: for every non-negative integer n, from_base62(to_base62(n)) = n:
\* once a number has been encoded and the code decoded, the decoder raised
\* nothing and returned the number.
C1_RoundTrip ==
    codec.pc = "roundtrip" =>
        /\ codec.result.raised = "none"
        /\ codec.result.value = codec.num

\* a number of at least three symbols went through the round trip
C1_Witness ==
    /\ codec.pc = "roundtrip"
    /\ Len(codec.short_code) >= 3
    /\ codec.num >= 62 * 62

\* C2: in every reachable state the Favorite table and the ShoppingCart
\* table each hold at most one row per (user, recipe) pair.
C2_AtMostOneRowPerPair ==
    \A view \in RecipeViews, user \in Users, pk \in RecipeIds :
        Cardinality(Rows(view, user, pk)) <= 1

\* C3: an add request received while the (user, recipe) relation exists is
\* answered 400 at once, changes no relation table, and the pair still has
\* exactly one row.
C3_DuplicateAddRejected ==
    [][\A view \in RecipeViews, user \in Users, pk \in RecipeIds :
          (Received(view, "POST", user, pk) /\ exists(Rows(view, user, pk)))
          => /\ resp' = Response(view, "POST", user, pk, 400)
             /\ procs' = procs
             /\ TablesUnchanged
             /\ Cardinality(Rows(view, user, pk)') = 1]_vars

\* C4: a remove request (favorite, shopping_cart or subscribe) received
\* while no (user, target) relation exists is answered 400 at once and
\* changes no relation table.
C4_RemoveAbsentRejected ==
    [][\A view \in Views, user \in Users :
        \A pk \in Targets(view) :
          (Received(view, "DELETE", user, pk) /\ ~ exists(Rows(view, user, pk)))
          => /\ resp' = Response(view, "DELETE", user, pk, 400)
             /\ procs' = procs
             /\ TablesUnchanged]_vars

\* a remove of an absent favorite was answered 400 while both recipe
\* relation tables held rows
C4_Witness ==
    /\ resp.view = "favorite"
    /\ resp.method = "DELETE"
    /\ resp.status = 400
    /\ resp.pk \in recipes
    /\ ~ exists(Rows("favorite", resp.user, resp.pk))
    /\ Favorite # {}
    /\ ShoppingCart # {}

\* C5: a relation is absent or present: an add answered 201 leaves the
\* pair present, a remove answered 204 leaves the pair absent, and a
\* remove received on a present pair is not refused.
C5_AddRemoveToggle ==
    [][\A view \in RecipeViews, user \in Users, pk \in RecipeIds :
          /\ resp' = Response(view, "POST", user, pk, 201)
                => exists(Rows(view, user, pk)')
          /\ resp' = Response(view, "DELETE", user, pk, 204)
                => ~ exists(Rows(view, user, pk)')
          /\ (Received(view, "DELETE", user, pk)
                /\ exists(Rows(view, user, pk)))
                => resp' = NoResp]_vars

\* C6: an add whose write finds the pair already in the table (it lost a
\* race against an identical add) is answered 400, never with an
\* untranslated store error.
C6_RaceLoserGetsDuplicateError ==
    [][\A p \in Procs :
          (Wrote(p) /\ procs[p].pc = "create"
             /\ exists(Rows(procs[p].view, procs[p].user, procs[p].pk)))
          => resp'.status = 400]_vars

\* C7: a subscribe request whose target is the requesting user is answered
\* 400 at once, no write is started and the Follow table is unchanged.
C7_SelfFollowRejected ==
    [][\A user \in Users :
          Received("subscribe", "POST", user, user)
          => /\ resp' = Response("subscribe", "POST", user, user, 400)
             /\ procs' = procs
             /\ TablesUnchanged]_vars

\* a self-subscription was refused while another subscription was stored
C7_Witness ==
    /\ resp.view = "subscribe"
    /\ resp.method = "POST"
    /\ resp.user = resp.pk
    /\ resp.status = 400
    /\ Follow # {}

\* C8: in every reachable state the Follow table holds distinct
\* (user, following) pairs, none with user = following.
C8_FollowDistinctNoSelf ==
    /\ \A user \in Users, pk \in Users :
           Cardinality(Rows("subscribe", user, pk)) <= 1
    /\ \A row \in Follow : row.user # row.target

\* two identical subscribe requests raced: one row was stored and the
\* store refused the other
C8_Witness ==
    /\ resp.view = "subscribe"
    /\ resp.method = "POST"
    /\ resp.status = 500
    /\ exists(Rows("subscribe", resp.user, resp.pk))

\* C9: the link get-link returns for an existing recipe r is
\* <base_url>/s/<to_base62(r)>, and a request of that link reaches the
\* redirect handler, which redirects to /recipes/<r>/.
C9_ShortLinkRedirects ==
    /\ (http.kind \in {"get_link", "follow"} /\ http.pk \in recipes)
          => http.link = [segs |-> << "s" >>, code |-> to_base62(http.pk)]
    /\ http.kind = "follow"
          => /\ resolve(http.path) = "recipe_redirect"
             /\ http.status = 302
             /\ http.location = [segs |-> << "recipes" >>, id |-> http.pk]

\* C10: a short code with a character outside the 62-symbol alphabet makes
\* from_base62 raise ValueError, and the redirect handler, given such a
\* code, answers 400 with no redirect.
C10_InvalidCodeRejected ==
    (/\ http.kind = "get"
     /\ resolve(http.path) = "recipe_redirect"
     /\ HasForeignChar(http.path.code))
    => /\ from_base62(http.path.code).raised = "ValueError"
       /\ http.status = 400
       /\ http.location = NoLocation

\* the handler refused a code whose first symbol is valid and whose second
\* is not, on a store where the valid prefix names a recipe
C10_Witness ==
    /\ http.kind = "get"
    /\ resolve(http.path) = "recipe_redirect"
    /\ http.path.code = << "1", "-" >>
    /\ 1 \in recipes
    /\ http.status = 400

----------------------------------------------------------------------------
(* Shopping cart export *)

\* the shopping cart rows of a user
CartOf(user) == {row \in ShoppingCart : row.user = user}

\* the format the view dispatches on
Dispatched(format) == lower(query_params_get(format))

\* per cart row of the user, the ingredient rows named `name` of its recipe
AmountsOf(user, name) ==
    {<<item.pk, row>> : item \in CartOf(user), row \in RecipeIngredient}
    \cap {pair \in (1..4) \X RecipeIngredient :
            /\ Ingredient[pair[2].ingredient] = name
            /\ \E item \in CartOf(user) :
                   item.pk = pair[1] /\ item.target = pair[2].recipe}

RECURSIVE SumAmounts(_)
SumAmounts(pairs) ==
    IF pairs = {} THEN 0
    ELSE LET pair == CHOOSE x \in pairs : TRUE
         IN  pair[2].amount + SumAmounts(pairs \ {pair})

\* the ingredients of the recipes in the user's cart; the Ingredient table
\* holds its names in ascending order of id (flour, sugar)
IdsOf(user) == {id \in IngredientIds : AmountsOf(user, Ingredient[id]) # {}}

\* one row per distinct ingredient name, summed, in ascending name order
Aggregated(user) ==
    [i \in 1..Cardinality(IdsOf(user)) |->
        LET id == CHOOSE x \in IdsOf(user) :
                      Cardinality({y \in IdsOf(user) : y < x}) = i - 1
        IN  << Ingredient[id], SumAmounts(AmountsOf(user, Ingredient[id])) >>]

\* the rows of an exported file below its header
DataRows ==
    IF Dispatched(export.format) = "csv" THEN Tail(export.body)
    ELSE export.body

\* C11: the rows download_shopping_cart exports for a user are one row per
\* distinct ingredient name over the recipes in the user's cart, each with
\* the sum of its amounts, in ascending name order.
C11_ExportAggregatesByName ==
    (export.kind = "download_shopping_cart" /\ export.status = 200)
    => DataRows = Aggregated(export.user)

\* C12: download_shopping_cart on an empty cart answers 404 and sends no
\* file, whatever the format parameter: absent, known or unknown.
C12_EmptyCartNotFound ==
    (export.kind = "download_shopping_cart" /\ CartOf(export.user) = {})
    => /\ export.status = 404
       /\ export.disposition = "none"
       /\ export.body = << >>

\* user with an empty cart asked for the pdf file and got 404
C12_Witness ==
    /\ export.kind = "download_shopping_cart"
    /\ CartOf(export.user) = {}
    /\ export.format = "pdf"
    /\ export.status = 404

\* the content type the claim pairs with a format
ContentTypeOf(file_format) ==
    CASE file_format = "csv" -> "text/csv"
      [] file_format = "txt" -> "text/plain"
      [] file_format = "pdf" -> "application/pdf"

\* C13: download_shopping_cart on a non-empty cart sends a file with the
\* content type of the format and an attachment Content-Disposition for
\* csv, txt and pdf, and answers 400 for any other format.
C13_FormatSelectsFile ==
    (export.kind = "download_shopping_cart" /\ CartOf(export.user) # {})
    => IF Dispatched(export.format) \in {"csv", "txt", "pdf"}
       THEN /\ export.status = 200
            /\ export.content_type = ContentTypeOf(Dispatched(export.format))
            /\ export.disposition \in
                 {"attachment; filename=\"shopping_cart.csv\"",
                  "attachment; filename=\"shopping_cart.txt\"",
                  "attachment; filename=\"shopping_cart.pdf\""}
       ELSE export.status = 400

\* C14: FileFactory.create_file with a format outside csv, txt, pdf ends in
\* an unsupported-format error, never in a default or empty result.
C14_UnsupportedFormatIsError ==
    (export.kind = "create_file"
       /\ export.format \notin {"csv", "txt", "pdf"})
    => export.result = "UnsupportedFormatError"

\* C15: the CSV file made of k aggregated rows is the header row
\* Ingredient,Total Amount followed by exactly k data rows in the order of
\* the input, each with the name and the total of its row.
C15_CsvHeaderThenRows ==
    (export.kind = "create_file" /\ export.format = "csv")
    => /\ export.result = "str"
       /\ Len(export.body) = Len(export.input) + 1
       /\ export.body[1] = << "Ingredient", "Total Amount" >>
       /\ \A i \in 1..Len(export.input) :
              export.body[i + 1] = << export.input[i].name,
                                      export.input[i].total_amount >>

\* a CSV file was made of two different rows, sugar first
C15_Witness ==
    /\ export.kind = "create_file"
    /\ export.format = "csv"
    /\ Len(export.input) = 2
    /\ export.input[1].name = "sugar"
    /\ export.input[2].name = "flour"
    /\ Len(export.body) = 3

----------------------------------------------------------------------------
(* Recipe writes *)

\* some value stands at two places of the list
Repeats(seq) == Cardinality({seq[i] : i \in DOMAIN seq}) < Len(seq)

\* the payloads that name a tag or an ingredient twice
DoublePayloads ==
    {data \in Payloads :
        \/ Repeats(data.tags.value)
        \/ Repeats(ingredient_ids(data.ingredients.value))}

\* the payloads with no tag or no ingredient, the field empty or left out
EmptyPayloads ==
    {data \in Payloads :
        data.tags.value = << >> \/ data.ingredients.value = << >>}

\* the rows of a recipe in the store
TagsOf(id) == {row \in Recipe_tags : row.recipe = id}
IngredientsOf(id) == {row \in RecipeIngredient : row.recipe = id}

RecipeUnchanged ==
    UNCHANGED <<recipes, Recipe, Recipe_tags, RecipeIngredient>>

\* the step is the receipt of a create by `user`, or of an update of a
\* recipe by its author, with the payload `data`
AuthorWrites(data) ==
    \E p \in RecipeWorkers, user \in Users :
        \/ recipe_create(p, user, data)
        \/ \E method \in {"PUT", "PATCH"}, pk \in recipes :
               /\ Recipe[pk].author = user
               /\ recipe_update_receive(p, method, user, pk, data)

\* the request is answered 400 at once and no worker takes it up
Rejected ==
    /\ resp'.status = 400
    /\ procs' = procs
    /\ RecipeUnchanged

\* C16: a create or update payload that names the same ingredient or the
\* same tag twice or more is rejected with a validation error, whatever the
\* amounts, and no recipe, tag link or ingredient row is written or changed.
C16_DoublesRejected ==
    [][\A data \in DoublePayloads : AuthorWrites(data) => Rejected]_vars

\* an update with ingredient 1 twice, at amounts 1 and 2, was refused and
\* recipe 1 is as it was
C16_Witness ==
    /\ resp.view = "recipe"
    /\ resp.method = "PUT"
    /\ resp.status = 400
    /\ resp.errors = {"ingredients: double"}
    /\ TagsOf(1) = {[recipe |-> 1, tag |-> 1]}
    /\ IngredientsOf(1) = {[recipe |-> 1, ingredient |-> 1, amount |-> 1]}

\* C17: a create or update payload with zero tags or zero ingredients, a
\* partial update that leaves the field out included, is rejected with a
\* validation error and the stored recipe is unchanged.
C17_EmptyRejected ==
    [][\A data \in EmptyPayloads : AuthorWrites(data) => Rejected]_vars

\* a partial update without tags was refused by validate()
C17_Witness ==
    /\ resp.view = "recipe"
    /\ resp.method = "PATCH"
    /\ resp.status = 400
    /\ resp.errors = {"add a tag"}
    /\ TagsOf(1) = {[recipe |-> 1, tag |-> 1]}

\* C18: after a successful update the tags of the recipe are exactly the
\* submitted tags and its ingredient rows exactly the submitted (ingredient,
\* amount) list; nothing of the former rows is left and nothing is merged.
C18_UpdateReplaces ==
    [][\A p \in RecipeWorkers :
          recipe_save(p) =>
            /\ {row \in Recipe_tags' : row.recipe = procs[p].pk} =
                 tag_rows(procs[p].pk, procs[p].obj.tags.value)
            /\ {row \in RecipeIngredient' : row.recipe = procs[p].pk} =
                 ingredient_rows(procs[p].pk,
                                 procs[p].obj.ingredients.value)]_vars

\* the step is the receipt of an update or a delete of a recipe from a user
\* who is not its author
NonAuthorWrites ==
    \E p \in RecipeWorkers, user \in Users, pk \in recipes :
        /\ Recipe[pk].author # user
        /\ \/ recipe_destroy_receive(p, user, pk)
           \/ \E method \in {"PUT", "PATCH"}, data \in Payloads :
                  recipe_update_receive(p, method, user, pk, data)

\* C19: an update or delete of a recipe by an authenticated user who is not
\* its author is answered 403 and leaves the recipe, its tags and its
\* ingredient rows unchanged.
C19_NonAuthorForbidden ==
    [][NonAuthorWrites =>
          /\ resp'.status = 403
          /\ procs' = procs
          /\ RecipeUnchanged]_vars

\* user 2 asked to delete recipe 1 of user 1 and got 403; the recipe and
\* its rows are there
C19_Witness ==
    /\ resp.view = "recipe"
    /\ resp.method = "DELETE"
    /\ resp.status = 403
    /\ resp.user = 2
    /\ resp.pk \in recipes
    /\ Recipe[resp.pk].author = 1
    /\ TagsOf(resp.pk) # {}
    /\ IngredientsOf(resp.pk) # {}

\* C20: in every reachable state each RecipeIngredient, Favorite and
\* ShoppingCart row references an existing recipe; so after a recipe is
\* deleted no such row references it.
C20_NoDanglingRows ==
    /\ \A row \in RecipeIngredient : row.recipe \in recipes
    /\ \A row \in Favorite \cup ShoppingCart : row.target \in recipes

\* recipe 1, which had an ingredient row, a favorite and a shopping cart
\* row, was deleted
C20_Witness ==
    /\ resp.view = "recipe"
    /\ resp.method = "DELETE"
    /\ resp.status = 204
    /\ resp.pk = 1
    /\ 1 \notin recipes
    /\ Favorite = {}
    /\ ShoppingCart = {}

\* the payloads with a cooking time or an amount below 1
BelowMinPayloads ==
    {data \in Payloads :
        \/ data.cooking_time < 1
        \/ \E i \in DOMAIN data.ingredients.value :
               data.ingredients.value[i].amount < 1}

\* C21: every stored recipe has cooking_time >= 1 and every stored
\* ingredient row has amount >= 1, and a create or update payload with a
\* cooking_time or an amount below 1 is rejected without any write.
C21_MinimumsKept ==
    /\ [](/\ \A id \in recipes : Recipe[id].cooking_time >= 1
          /\ \A row \in RecipeIngredient : row.amount >= 1)
    /\ [][\A data \in BelowMinPayloads : AuthorWrites(data) => Rejected]_vars

\* a create with amount 0 was refused; the store holds recipe 1 alone
C21_Witness ==
    /\ resp.view = "recipe"
    /\ resp.method = "POST"
    /\ resp.status = 400
    /\ resp.errors = {"amount: min_value"}
    /\ recipes = {1}
    /\ Recipe[1].cooking_time = 1

----------------------------------------------------------------------------
(* Codec, continued *)

\* the symbols of the alphabet
Alphabet == {BASE62[i] : i \in 1..Len(BASE62)}

\* C22: to_base62(0) is the single symbol "0", and for every n > 0 the
\* string to_base62(n) is non-empty, made of alphabet symbols only, and
\* does not start with "0".
C22_NoLeadingZero ==
    codec.pc \in {"encoded", "roundtrip"} =>
        IF codec.num = 0
        THEN codec.short_code = << "0" >>
        ELSE /\ Len(codec.short_code) >= 1
             /\ \A i \in 1..Len(codec.short_code) :
                    codec.short_code[i] \in Alphabet
             /\ codec.short_code[1] # "0"

\* 62 was encoded: two symbols, the last of them "0"
C22_Witness ==
    /\ codec.pc = "encoded"
    /\ codec.num = 62
    /\ codec.short_code = << "1", "0" >>

\* the tags and ingredient rows of a recipe are those of one payload, or
\* the ones it had before any request
OfOnePayload(id) ==
    \/ /\ TagsOf(id) = {[recipe |-> id, tag |-> 1]}
       /\ IngredientsOf(id) = {[recipe |-> id, ingredient |-> 1, amount |-> 1]}
    \/ \E data \in {d \in Payloads : is_valid(d, FALSE)} :
           /\ TagsOf(id) = tag_rows(id, data.tags.value)
           /\ IngredientsOf(id) = ingredient_rows(id, data.ingredients.value)

\* C23: a recipe update executes as one logical transaction: no state that
\* a concurrent request can observe has the tags or the ingredient rows of
\* the recipe cleared but not yet set again, and once the updates have
\* answered the recipe has the tags and rows of exactly one payload.
C23_UpdateIsAtomic ==
    \A id \in recipes :
        /\ TagsOf(id) # {}
        /\ IngredientsOf(id) # {}
        /\ (\A p \in RecipeWorkers : procs[p].pc = "idle") => OfOnePayload(id)

\* C24: of two concurrent identical remove requests on an existing relation
\* (favorite, shopping_cart or subscribe) exactly one is answered 204 and
\* the other 400: a remove is answered 204 only if its delete() removed the
\* row, so the request that finds the row gone is not answered 204.
C24_OneRemoveWins ==
    [][\A p \in Procs :
          (Wrote(p) /\ procs[p].pc = "delete" /\ resp'.status = 204)
          => \E row \in Table(procs[p].view) : row.pk = procs[p].obj]_vars

----------------------------------------------------------------------------
(* The PDF writers on their own *)

PdfPaths == {"_download_pdf", "_generate_pdf"}

PdfInit ==
    /\ codec = CodecIdle
    /\ http = NoHttp
    /\ recipes = {}
    /\ RelIdle
    /\ StoreIdle

PdfNext ==
    \/ \E path \in PdfPaths, todo \in 0..MaxEntries :
           canvas_Canvas(path, todo)
    \/ download_pdf_item
    \/ generate_pdf_ingredient
    \/ canvas_showPage_save

PdfSpec == PdfInit /\ [][PdfNext]_vars

\* C25: in every PDF export path each text line is drawn at a vertical
\* position of at least 60 points, whatever the size of the cart: a new
\* page is started before a line would be drawn below that margin.
C25_LinesAboveMargin ==
    \A line \in canvas.drawn : line.y >= 60

\* C26: the author of a recipe is the user whose request created it: a
\* create stores the requesting user whatever author the payload names, and
\* no step of any request changes the author of a stored recipe.
C26_AuthorIsCreator ==
    [][/\ \A id \in recipes' \ recipes :
              resp'.method = "POST" => Recipe'[id].author = resp'.user
       /\ \A id \in recipes \cap recipes' :
              Recipe'[id].author = Recipe[id].author]_vars

\* a string without its leading "0" symbols
RECURSIVE without_leading_zeros(_)
without_leading_zeros(s) ==
    IF s # << >> /\ s[1] = "0" THEN without_leading_zeros(Tail(s)) ELSE s

\* C27: to_base62(from_base62(s)) = s for every alphabet string s that is
\* "0" or does not start with "0"; a string with leading "0" symbols, and
\* the empty string, decodes to the integer that the string without them
\* decodes to, so that distinct codes name the same recipe.
C27_CanonicalCodes ==
    LET s == codec.short_code
    IN  /\ (codec.pc = "recoded" /\ (s = << "0" >> \/ (s # << >> /\ s[1] # "0")))
              => codec.recoded = s
        /\ (codec.pc \in {"decoded", "recoded"} /\ codec.result.raised = "none")
              => /\ codec.result = from_base62(without_leading_zeros(s))
                 /\ s = << >> => codec.result.value = 0

\* the code "01" was decoded to 1, the number of the code "1"
C27_Witness ==
    /\ codec.pc = "recoded"
    /\ codec.short_code = << "0", "1" >>
    /\ codec.result.value = 1
    /\ codec.recoded = << "1" >>

----------------------------------------------------------------------------
(* Relations, continued *)

\* the rows by which two states of a table differ
Changed(before, after) == (before \ after) \cup (after \ before)

\* C28: a favorite or shopping_cart add or remove request of user u on
\* recipe r changes at most one row, a row of (u, r) in the addressed
\* table: the rows of other users and of other recipes, the other relation
\* table, the Follow table and the recipes themselves are unchanged.
C28_OnlyTheAddressedRow ==
    [][\A view \in RecipeViews, user \in Users, pk \in RecipePks :
          /\ \A method \in Methods :
                Received(view, method, user, pk)
                => TablesUnchanged /\ UNCHANGED <<recipes, Recipe>>
          /\ \A p \in Procs :
                (/\ Wrote(p)
                 /\ procs[p].view = view
                 /\ procs[p].user = user
                 /\ procs[p].pk = pk)
                => /\ \A other \in RecipeViews \ {view} :
                          Table(other)' = Table(other)
                   /\ UNCHANGED <<Follow, recipes, Recipe, Recipe_tags,
                                  RecipeIngredient>>
                   /\ Cardinality(Changed(Table(view), Table(view)')) <= 1
                   /\ \A row \in Changed(Table(view), Table(view)') :
                          row.user = user /\ row.target = pk]_vars

\* a favorite of one user was removed while the favorite of another user
\* stayed in the table
C28_Witness ==
    /\ resp.view = "favorite"
    /\ resp.method = "DELETE"
    /\ resp.status = 204
    /\ \E row \in Favorite : row.user # resp.user
    /\ ~ exists(Rows("favorite", resp.user, resp.pk))

----------------------------------------------------------------------------
(* Reads: RecipeReadSerializer and RecipeViewSet.get_queryset of recipes/, *)
(* UserSerializer and UserViewSet.get_subscriptions of users/.  A queryset *)
(* is modelled by the number of result rows it holds per object: a filter  *)
(* across a reverse relation joins, and yields a row per related row.      *)

\* request.user of a request without credentials
AnonymousUser == 0

\* user.is_authenticated
is_authenticated(user) == user # AnonymousUser

\* related_name='%(class)s_by_users' of UserRecipeRelation.recipe
by_users(related_name) ==
    CASE related_name = "favorite_by_users" -> Favorite
      [] related_name = "shoppingcart_by_users" -> ShoppingCart

\* a check that looks for a row of any user
check_any_user_relation(user, obj, related_name) ==
    /\ is_authenticated(user)
    /\ exists({row \in by_users(related_name) : row.target = obj})

\* RecipeReadSerializer._check_user_relation(obj, related_name)
check_user_relation(user, obj, related_name) ==
    /\ is_authenticated(user)
    /\ exists(objects_filter(by_users(related_name), user, obj))

get_is_favorited(user, obj) ==
    check_user_relation(user, obj, "favorite_by_users")

get_is_in_shopping_cart(user, obj) ==
    check_user_relation(user, obj, "shoppingcart_by_users")

\* Recipe.objects.all()
Recipe_objects_all == [id \in recipes |-> 1]

\* queryset.filter(<related_name>__user=user)
queryset_filter(queryset, related_name, user) ==
    [id \in DOMAIN queryset |->
        queryset[id]
          * Cardinality(objects_filter(by_users(related_name), user, id))]

\* queryset.exclude(<related_name>__user=user)
queryset_exclude(queryset, related_name, user) ==
    [id \in DOMAIN queryset |->
        IF exists(objects_filter(by_users(related_name), user, id))
        THEN 0
        ELSE queryset[id]]

\* one of the two flag blocks of get_queryset: the parameter is looked at
\* for an authenticated user only, and only "1" and "0" select
flag_filter(queryset, value, related_name, user) ==
    IF value # "absent" /\ is_authenticated(user)
    THEN IF value = "1"
         THEN queryset_filter(queryset, related_name, user)
         ELSE IF value = "0"
              THEN queryset_exclude(queryset, related_name, user)
              ELSE queryset
    ELSE queryset

\* RecipeViewSet.get_queryset(), without the author and tags parameters
get_queryset(user, is_in_shopping_cart, is_favorited) ==
    flag_filter(
        flag_filter(Recipe_objects_all, is_in_shopping_cart,
                    "shoppingcart_by_users", user),
        is_favorited, "favorite_by_users", user)

\* the response of a read: the request it answers and the data it carries
ReadResponse(view, user, pk, query, status, data) ==
    [view |-> view, method |-> "GET", user |-> user, pk |-> pk,
     status |-> status, query |-> query, data |-> data]

NoQuery == [is_in_shopping_cart |-> "absent", is_favorited |-> "absent"]

\* GET /api/recipes/{pk}/
recipe_retrieve(user, pk) ==
    /\ resp' = IF pk \notin recipes
               THEN ReadResponse("recipe_retrieve", user, pk, NoQuery, 404,
                                 << >>)
               ELSE ReadResponse("recipe_retrieve", user, pk, NoQuery, 200,
                        [id |-> pk,
                         is_favorited |-> get_is_favorited(user, pk),
                         is_in_shopping_cart |->
                             get_is_in_shopping_cart(user, pk)])
    /\ UNCHANGED <<Favorite, ShoppingCart, Follow, last_pk, procs, nreq>>
    /\ UNCHANGED <<codec, recipes, http>>
    /\ UNCHANGED storeVars

\* GET /api/recipes/?is_in_shopping_cart=..&is_favorited=..
recipe_list(user, is_in_shopping_cart, is_favorited) ==
    /\ resp' = ReadResponse("recipe_list", user, 0,
                   [is_in_shopping_cart |-> is_in_shopping_cart,
                    is_favorited |-> is_favorited],
                   200,
                   get_queryset(user, is_in_shopping_cart, is_favorited))
    /\ UNCHANGED <<Favorite, ShoppingCart, Follow, last_pk, procs, nreq>>
    /\ UNCHANGED <<codec, recipes, http>>
    /\ UNCHANGED storeVars

\* UserSerializer.get_is_subscribed(obj):
\* user.followers.filter(following=obj).exists()
get_is_subscribed(user, obj) ==
    /\ is_authenticated(user)
    /\ exists(objects_filter(Follow, user, obj))

\* GET /api/users/{pk}/, open to any reader
user_retrieve(user, pk) ==
    /\ resp' = IF pk \notin Users
               THEN ReadResponse("user_retrieve", user, pk, NoQuery, 404,
                                 << >>)
               ELSE ReadResponse("user_retrieve", user, pk, NoQuery, 200,
                        [id |-> pk,
                         is_subscribed |-> get_is_subscribed(user, pk)])
    /\ UNCHANGED <<Favorite, ShoppingCart, Follow, last_pk, procs, nreq>>
    /\ UNCHANGED <<codec, recipes, http>>
    /\ UNCHANGED storeVars

\* a queryset of the users that follow `user`
User_objects_filter_followers__following(user) ==
    [x \in Users |-> Cardinality(objects_filter(Follow, x, user))]

\* User.objects.filter(following__user=user)
User_objects_filter_following__user(user) ==
    [x \in Users |-> Cardinality(objects_filter(Follow, user, x))]

\* GET /api/users/subscriptions/, for authenticated users: each user of the
\* queryset is serialized with FollowSerializer
get_subscriptions(user) ==
    /\ resp' = IF ~ is_authenticated(user)
               THEN ReadResponse("get_subscriptions", user, 0, NoQuery, 401,
                                 << >>)
               ELSE LET subscriptions ==
                            User_objects_filter_following__user(user)
                    IN  ReadResponse("get_subscriptions", user, 0, NoQuery,
                            200,
                            [x \in Users |->
                                [rows |-> subscriptions[x],
                                 is_subscribed |->
                                     get_is_subscribed(user, x)]])
    /\ UNCHANGED <<Favorite, ShoppingCart, Follow, last_pk, procs, nreq>>
    /\ UNCHANGED <<codec, recipes, http>>
    /\ UNCHANGED storeVars

----------------------------------------------------------------------------
(* The reads on their own, on any content of the relation tables *)

Readers == Users \cup {AnonymousUser}

\* values of a flag parameter of the recipe list
QueryValues == {"absent", "1", "0", "true"}

\* rows the Favorite table can hold: a pair with two rows (no constraint
\* stops the second), a row of another user and a row of another recipe
FavoriteRows ==
    {[pk |-> 1, user |-> 1, target |-> 1],
     [pk |-> 2, user |-> 1, target |-> 1],
     [pk |-> 3, user |-> 2, target |-> 1],
     [pk |-> 4, user |-> 1, target |-> 2]}

\* rows the ShoppingCart table can hold: recipe 1 in the cart of each user
ShoppingCartRows == {row \in CartRows : row.target = 1}

\* rows the Follow table can hold: each user following the other
FollowRows ==
    {[pk |-> 1, user |-> 1, target |-> 2],
     [pk |-> 2, user |-> 2, target |-> 1]}

ReadInit ==
    /\ codec = CodecIdle
    /\ http = NoHttp
    /\ recipes = RecipeIds
    /\ StoreIdle
    /\ Favorite \in SUBSET FavoriteRows
    /\ ShoppingCart \in SUBSET ShoppingCartRows
    /\ Follow \in SUBSET FollowRows
    /\ last_pk = [name \in {"Favorite", "ShoppingCart", "Follow"} |-> 4]
    /\ procs = [p \in Procs |-> Idle]
    /\ resp = NoResp
    /\ nreq = 0

ReadNext ==
    \/ \E user \in Readers, pk \in RecipePks : recipe_retrieve(user, pk)
    \/ \E user \in Readers, is_in_shopping_cart \in QueryValues,
          is_favorited \in QueryValues :
           recipe_list(user, is_in_shopping_cart, is_favorited)
    \/ \E user \in Readers, pk \in UserPks : user_retrieve(user, pk)
    \/ \E user \in Readers : get_subscriptions(user)

ReadSpec == ReadInit /\ [][ReadNext]_vars

\* the table holds a row of the pair (user, target)
HasRow(table, user, target) ==
    \E row \in table : row.user = user /\ row.target = target

\* a recipe with or without a row passes a flag parameter
Passes(value, has_row) ==
    CASE value = "1" -> has_row
      [] value = "0" -> ~ has_row
      [] OTHER -> TRUE

\* the objects a queryset returns
Returned(queryset) == {x \in DOMAIN queryset : queryset[x] > 0}

C30_SubscriptionsFollowRows ==
    /\ (resp.view = "get_subscriptions" /\ resp.status = 200)
          => /\ {x \in Users : resp.data[x].rows > 0} =
                    {x \in Users : HasRow(Follow, resp.user, x)}
             /\ \A x \in Users :
                    resp.data[x].is_subscribed = HasRow(Follow, resp.user, x)
    /\ (resp.view = "user_retrieve" /\ resp.status = 200)
          => resp.data.is_subscribed
                 = (is_authenticated(resp.user)
                      /\ HasRow(Follow, resp.user, resp.pk))

\* user 1 follows user 2 and is not followed back: the subscriptions of
\* user 1 are user 2 alone
C30_Witness ==
    /\ resp.view = "get_subscriptions"
    /\ resp.user = 1
    /\ HasRow(Follow, 1, 2)
    /\ ~ HasRow(Follow, 2, 1)
    /\ resp.data[2].rows = 1
    /\ resp.data[1].rows = 0

====
